---- MODULE Spec2Model ----
(***************************************************************************)
(* A model of ng-swagger-gen.js: the construction of the model graph       *)
(* (processModels), of the service graph (processServices) and the tag     *)
(* filter (applyTagFilter), as run in sequence by doGenerate.              *)
(*                                                                         *)
(* Representation.  A JavaScript string on which the program computes      *)
(* (a type expression, a reference, a name, a path template) is a sequence *)
(* of tokens: "A[]" is <<"A", "[", "]">>, "#/definitions/A" is             *)
(* <<"#", "/", "definitions", "/", "A">>.  A JavaScript object keyed by    *)
(* name is a sequence of entries in insertion order, the order a for-in    *)
(* loop visits them.  A reference to a model object is the model's name:   *)
(* names are the keys of one mapping, so they identify the objects.        *)
(***************************************************************************)
EXTENDS Integers, Sequences, FiniteSets, TLC

VARIABLES
    swagger,    \* the parsed document: definitions and paths
    options,    \* the generation options: includeTags, ignoreUnusedModels
    models,     \* the model mapping, in insertion order
    services,   \* the service mapping, in insertion order
    allDependencies,
                \* the Set collectDependencies collects in, as the sequence
                \* of the names added to it; empty until it is created
    pc          \* the position of doGenerate, or of a caller of
                \* collectDependencies

vars == <<swagger, options, models, services, allDependencies, pc>>

----------------------------------------------------------------------------
(* Strings and arrays *)

\* null, or an absent (undefined) member that the program only tests for
\* truthiness: the empty string is as falsy.
Null == <<>>

\* The value undefined, where the program compares it with strings.
Undefined == <<"(undefined)">>

\* The code unit order of the one-token names the model uses.
CodeUnitOrder == <<"0", "1", "2", "3", "4", "5", "6", "7", "8", "9",
                   "A", "B", "C", "D", "X", "a", "b", "c", "d", "default">>

TokenRank(t) ==
    IF \E i \in 1..Len(CodeUnitOrder) : CodeUnitOrder[i] = t
    THEN CHOOSE i \in 1..Len(CodeUnitOrder) : CodeUnitOrder[i] = t
    ELSE 0

\* s < t on strings: the first differing token decides, a proper prefix is less.
StrLt(s, t) ==
    \/ \E i \in 1..Len(s) :
         /\ i <= Len(t)
         /\ \A j \in 1..(i - 1) : s[j] = t[j]
         /\ TokenRank(s[i]) < TokenRank(t[i])
    \/ /\ Len(s) < Len(t)
       /\ \A j \in 1..Len(s) : s[j] = t[j]

\* a < b in JavaScript where either may be undefined: undefined converts to
\* NaN and every comparison with it is false.
JsLt(a, b) == a # Undefined /\ b # Undefined /\ StrLt(a, b)

\* String.prototype.indexOf / Array.prototype.indexOf, 1-based; 0 is "-1".
IndexOf(s, x) ==
    IF \E i \in 1..Len(s) : s[i] = x
    THEN CHOOSE i \in 1..Len(s) : s[i] = x /\ \A j \in 1..(i - 1) : s[j] # x
    ELSE 0

LastIndexOf(s, x) ==
    IF \E i \in 1..Len(s) : s[i] = x
    THEN CHOOSE i \in 1..Len(s) : s[i] = x /\ \A j \in (i + 1)..Len(s) : s[j] # x
    ELSE 0

Range(s) == {s[i] : i \in 1..Len(s)}

NoDuplicates(s) == \A i, j \in 1..Len(s) : i # j => s[i] # s[j]

\* Array.prototype.sort as a stable sort (ECMAScript 2019), cmp[j][k] being
\* the comparator's result on s[j] and s[k]: the element at index k goes after
\* every element that compares before it and every equal element that
\* precedes it.
SortRank(s, cmp, k) ==
    1 + Cardinality({j \in 1..Len(s) :
                        \/ cmp[j][k] < 0
                        \/ (cmp[j][k] = 0 /\ j < k)})

StableSort(s, cmp) ==
    [i \in 1..Len(s) |-> s[CHOOSE k \in 1..Len(s) : SortRank(s, cmp, k) = i]]

\* arr[arr.length - 1].last = true, when the array is not empty.
FlagLast(s) ==
    [i \in 1..Len(s) |-> IF i = Len(s) THEN [s[i] EXCEPT !.last = TRUE] ELSE s[i]]

simpleRef(ref) ==
    IF ref = Null THEN Null
    ELSE LET index == LastIndexOf(ref, "/")
         IN  IF index > 0 THEN SubSeq(ref, index + 1, Len(ref)) ELSE ref

----------------------------------------------------------------------------
(* Schema fragments and type expressions *)

\* A schema fragment: a definition, a property, a parameter, a response
\* schema.  An absent member is Null; items holds zero or one fragment.
Schema(type) ==
    [ref |-> Null, type |-> type, items |-> <<>>, properties |-> <<>>,
     required |-> <<>>, allOf |-> <<>>, enum |-> <<>>]

RefTo(name) == [Schema("") EXCEPT !.ref = <<"#", "/", "definitions", "/">> \o name]

ArrayOf(item) == [Schema("array") EXCEPT !.items = <<item>>]

ObjectOf(props) == [Schema("object") EXCEPT !.properties = props]

\* A type expression: a string (text), or the object propertyType returns for
\* an inline object, with its allTypes and the text its toString gives.
PlainType(text) == [inline |-> FALSE, allTypes |-> <<>>, text |-> text]

VoidType == PlainType(<<"void">>)

\* allTypes.indexOf(type) < 0: strings compare by value, objects by identity,
\* and each inline object is a new one.
AddDistinctType(allTypes, type) ==
    IF ~type.inline /\ \E i \in 1..Len(allTypes) : allTypes[i] = type
    THEN allTypes
    ELSE Append(allTypes, type)

RECURSIVE propertyType(_)
RECURSIVE InlineMembers(_, _, _)

\* The loop of propertyType over property.properties: the types met so far
\* and the text built so far.
InlineMembers(props, i, acc) ==
    IF i > Len(props) THEN acc
    ELSE LET type == propertyType(props[i].schema)
             sep  == IF i = 1 THEN <<>> ELSE <<",", " ">>
         IN  InlineMembers(props, i + 1,
                 [allTypes |-> AddDistinctType(acc.allTypes, type),
                  def |-> acc.def \o sep \o props[i].name \o <<":", " ">> \o type.text])

propertyType(property) ==
    IF property.ref # Null THEN PlainType(simpleRef(property.ref))
    ELSE CASE property.type = "string"  -> PlainType(<<"string">>)
           [] property.type = "array"   ->
                PlainType((IF property.items = <<>> THEN VoidType
                           ELSE propertyType(property.items[1])).text \o <<"[", "]">>)
           [] property.type = "integer" -> PlainType(<<"number">>)
           [] property.type = "number"  -> PlainType(<<"number">>)
           [] property.type = "boolean" -> PlainType(<<"Boolean">>)
           [] property.type = "object"  ->
                LET m == InlineMembers(property.properties, 1,
                                       [allTypes |-> <<>>, def |-> <<"{">>])
                IN  [inline |-> TRUE, allTypes |-> m.allTypes, text |-> m.def \o <<"}">>]
           [] OTHER -> PlainType(<<"any">>)

\* removeBrackets of a string.
removeBrackets(type) ==
    LET pos == IndexOf(type, "[")
    IN  IF pos > 0 THEN SubSeq(type, 1, pos - 1) ELSE type

processProperties(properties, requiredProperties) ==
    [i \in 1..Len(properties) |->
        [propertyName |-> properties[i].name,
         propertyRequired |-> IndexOf(requiredProperties, properties[i].name) > 0,
         propertyType |-> propertyType(properties[i].schema),
         last |-> FALSE]]

----------------------------------------------------------------------------
(* The model mapping *)

\* models[name], or Undefined: the index of the entry, 0 when there is none.
ModelIndex(ms, name) ==
    IF \E i \in 1..Len(ms) : ms[i].modelName = name
    THEN CHOOSE i \in 1..Len(ms) : ms[i].modelName = name
    ELSE 0

HasModel(ms, name) == ModelIndex(ms, name) > 0

ModelNamed(ms, name) == ms[ModelIndex(ms, name)]

ModelNames(ms) == {ms[i].modelName : i \in 1..Len(ms)}

\* The descriptor processModels builds for one definition (first loop).
\* modelParent is null, the parent's name (a string) or, once the hierarchy
\* is processed, the parent model itself.  modelProperties holds the
\* property descriptors of descriptor.properties, which are the same objects.
NoParent == [kind |-> "null", name |-> Null]

\* The comparator of descriptor.modelProperties.sort: it reads modelName,
\* which a property descriptor does not have.
compareProperties(a, b) ==
    LET an == IF "modelName" \in DOMAIN a THEN a.modelName ELSE Undefined
        bn == IF "modelName" \in DOMAIN b THEN b.modelName ELSE Undefined
    IN  IF JsLt(an, bn) THEN -1 ELSE IF JsLt(bn, an) THEN 1 ELSE 0

sortProperties(props) ==
    FlagLast(StableSort(props,
        [j \in 1..Len(props) |-> [k \in 1..Len(props) |->
            compareProperties(props[j], props[k])]]))

\* Whether the first loop of processModels calls process.exit(1) on a
\* definition: an enum without values, or an unhandled type.
IsFatalDefinition(model) ==
    /\ model.allOf = <<>>
    /\ model.type # "object"
    /\ (model.type = "string" => model.enum = <<>>)

modelDescriptor(name, model) ==
    LET isAllOf == model.allOf # <<>>
        isEnum  == ~isAllOf /\ model.type = "string"
        parent  == IF isAllOf THEN simpleRef(model.allOf[1].ref) ELSE Null
        own     == IF isAllOf
                   THEN (IF Len(model.allOf) >= 2 THEN model.allOf[2] ELSE Schema(""))
                   ELSE model
        properties == IF isEnum THEN <<>>
                      ELSE processProperties(own.properties, own.required)
    IN  [modelName |-> name,
         modelParent |-> IF parent = Null THEN NoParent
                         ELSE [kind |-> "name", name |-> parent],
         modelIsObject |-> ~isEnum,
         modelIsEnum |-> isEnum,
         modelProperties |-> IF isEnum THEN <<>> ELSE sortProperties(properties),
         modelEnumValues |-> IF isEnum THEN model.enum ELSE <<>>,
         modelSubclasses |-> <<>>,
         hasDependencies |-> FALSE,
         modelDependencies |-> <<>>]

buildModels(definitions) ==
    [i \in 1..Len(definitions) |->
        modelDescriptor(definitions[i].name, definitions[i].schema)]

\* processHierarchy without the append to the parent's subclasses.
RECURSIVE processHierarchyNoSubclasses(_, _)
processHierarchyNoSubclasses(ms, i) ==
    IF i > Len(ms) THEN [fault |-> FALSE, models |-> ms]
    ELSE IF ~ms[i].modelIsObject \/ ms[i].modelParent.name = Null
         THEN processHierarchyNoSubclasses(ms, i + 1)
    ELSE LET parentName == ms[i].modelParent.name
             p == IF \E k \in 1..Len(ms) : ms[k].modelName = parentName THEN 1 ELSE 0
         IN  IF p = 0 THEN [fault |-> TRUE, models |-> ms]
             ELSE processHierarchyNoSubclasses(
                    [ms EXCEPT ![i].modelParent = [kind |-> "model", name |-> parentName]],
                    i + 1)

\* Second loop of processModels, from the i-th model on: each object model
\* with a parent name gets the parent model, and is appended to the parent's
\* subclasses.  models[parentName] of an unknown name is undefined and
\* reading its modelSubclasses throws (fault).
RECURSIVE processHierarchy(_, _)
processHierarchy(ms, i) ==
    IF i > Len(ms) THEN [fault |-> FALSE, models |-> ms]
    ELSE IF ~ms[i].modelIsObject \/ ms[i].modelParent.name = Null
         THEN processHierarchy(ms, i + 1)
    ELSE LET parentName == ms[i].modelParent.name
             p == ModelIndex(ms, parentName)
             linked == [ms EXCEPT ![i].modelParent = [kind |-> "model", name |-> parentName]]
         IN  IF p = 0 THEN [fault |-> TRUE, models |-> linked]
             ELSE processHierarchy(
                    [linked EXCEPT ![p].modelSubclasses = Append(@, ms[i].modelName)],
                    i + 1)

\* DependenciesResolver: the names of the dependencies added so far
\* (dependencyNames, which also identify the models of dependencies).  fault
\* is set when add is given an inline object type: removeBrackets calls
\* indexOf on it, which it does not have, and throws.
NewResolver == [dependencyNames |-> <<>>, fault |-> FALSE]

\* resolverAdd without the comparison with ownType.
resolverAddOwnType(r, ms, ownType, dep) ==
    IF r.fault THEN r
    ELSE IF dep.inline THEN [r EXCEPT !.fault = TRUE]
    ELSE LET pos == IndexOf(dep.text, "[")
             name == IF pos > 0 THEN SubSeq(dep.text, 1, pos - 1) ELSE dep.text
         IN  IF IndexOf(r.dependencyNames, name) = 0
                /\ \E k \in 1..Len(ms) : ms[k].modelName = name
             THEN [r EXCEPT !.dependencyNames = Append(@, name)]
             ELSE r

resolverAdd(r, ms, ownType, dep) ==
    IF r.fault THEN r
    ELSE IF dep.inline THEN [r EXCEPT !.fault = TRUE]
    ELSE LET name == removeBrackets(dep.text)
         IN  IF IndexOf(r.dependencyNames, name) = 0 /\ name # ownType /\ HasModel(ms, name)
             THEN [r EXCEPT !.dependencyNames = Append(@, name)]
             ELSE r

RECURSIVE resolverAddAll(_, _, _, _, _)
resolverAddAll(r, ms, ownType, deps, i) ==
    IF i > Len(deps) THEN r
    ELSE resolverAddAll(resolverAdd(r, ms, ownType, deps[i]), ms, ownType, deps, i + 1)

\* The candidates the third loop of processModels adds for one model, in
\* order: the parent, the subclasses, then each property's type or, for an
\* inline object, each of its allTypes.
RECURSIVE propertyCandidates(_, _)
propertyCandidates(props, i) ==
    IF i > Len(props) THEN <<>>
    ELSE (IF props[i].propertyType.inline THEN props[i].propertyType.allTypes
          ELSE <<props[i].propertyType>>) \o propertyCandidates(props, i + 1)

modelCandidates(model) ==
    (IF model.modelParent.kind = "null" THEN <<>>
     ELSE <<PlainType(model.modelParent.name)>>)
    \o [i \in 1..Len(model.modelSubclasses) |-> PlainType(model.modelSubclasses[i])]
    \o propertyCandidates(model.modelProperties, 1)

resolveModelDependencies(ms) ==
    LET res(i) == resolverAddAll(NewResolver, ms, ms[i].modelName, modelCandidates(ms[i]), 1)
    IN  [fault |-> \E i \in 1..Len(ms) : ms[i].modelIsObject /\ res(i).fault,
         models |-> [i \in 1..Len(ms) |->
                        IF ms[i].modelIsObject
                        THEN [ms[i] EXCEPT !.hasDependencies = TRUE,
                                           !.modelDependencies = res(i).dependencyNames]
                        ELSE ms[i]]]

\* processModels: "exit" when a definition is fatal, "fault" when an
\* exception is thrown, else "ok" with the model mapping.
processModels(definitions) ==
    IF \E i \in 1..Len(definitions) : IsFatalDefinition(definitions[i].schema)
    THEN [outcome |-> "exit", models |-> <<>>]
    ELSE LET linked == processHierarchy(buildModels(definitions), 1)
             resolved == resolveModelDependencies(linked.models)
         IN  IF linked.fault \/ resolved.fault
             THEN [outcome |-> "fault", models |-> <<>>]
             ELSE [outcome |-> "ok", models |-> resolved.models]

----------------------------------------------------------------------------
(* Operations and services *)

IsDigit(t) == t \in {"0", "1", "2", "3", "4", "5", "6", "7", "8", "9"}

DigitValue(t) == TokenRank(t) - 1

\* /2\d\d/.test(code): a 2 followed by two digits, anywhere in the code.
IsSuccessCode(code) ==
    \E i \in 1..(Len(code) - 2) :
        code[i] = "2" /\ IsDigit(code[i + 1]) /\ IsDigit(code[i + 2])

\* A key that is a canonical array index (digits, no leading zero): a for-in
\* loop visits such keys first, in ascending numeric order, then the other
\* keys in insertion order.
IsIndexKey(key) ==
    /\ Len(key) > 0
    /\ \A i \in 1..Len(key) : IsDigit(key[i])
    /\ (Len(key) > 1 => key[1] # "0")

RECURSIVE KeyValue(_)
KeyValue(key) ==
    IF key = <<>> THEN 0
    ELSE 10 * KeyValue(SubSeq(key, 1, Len(key) - 1)) + DigitValue(key[Len(key)])

compareKeys(a, b) ==
    IF IsIndexKey(a) /\ IsIndexKey(b)
    THEN (IF KeyValue(a) < KeyValue(b) THEN -1 ELSE IF KeyValue(a) > KeyValue(b) THEN 1 ELSE 0)
    ELSE IF IsIndexKey(a) THEN -1
    ELSE IF IsIndexKey(b) THEN 1
    ELSE 0

\* The entries of an object in the order for-in visits them; each entry has
\* its key in the field code.
ForInOrder(entries) ==
    StableSort(entries,
        [j \in 1..Len(entries) |-> [k \in 1..Len(entries) |->
            compareKeys(entries[j].code, entries[k].code)]])

\* The loop of processResponses from the i-th response (in for-in order) on:
\* rt is operationResponses.resultType so far (Null: not set), out the
\* entries keyed by code so far.
RECURSIVE responsesLoop(_, _, _)
responsesLoop(responses, i, acc) ==
    IF i > Len(responses) THEN acc
    ELSE IF responses[i].schema = <<>> THEN responsesLoop(responses, i + 1, acc)
    ELSE LET type == propertyType(responses[i].schema[1])
         IN  responsesLoop(responses, i + 1,
                 [resultType |-> IF IsSuccessCode(responses[i].code)
                                 THEN <<type>> ELSE acc.resultType,
                  byCode |-> Append(acc.byCode, [code |-> responses[i].code, type |-> type])])

processResponses(def) ==
    LET r == responsesLoop(ForInOrder(def.responses), 1,
                           [resultType |-> <<>>, byCode |-> <<>>])
    IN  [resultType |-> IF r.resultType = <<>> THEN VoidType ELSE r.resultType[1],
         byCode |-> r.byCode]

\* String.prototype.replace with a string pattern: the first occurrence only.
\* "${params." has no replacement pattern ($$, $&, $n), so it is inserted
\* as it stands.
toPathExpression(path) ==
    LET pos == IndexOf(path, "{")
    IN  IF pos = 0 THEN path
        ELSE SubSeq(path, 1, pos - 1) \o <<"$", "{", "params", ".">>
             \o SubSeq(path, pos + 1, Len(path))

paramDescriptor(param) ==
    [paramName |-> param.name,
     paramIn |-> param.in,
     paramRequired |-> param.required \/ param.in = "path",
     paramType |-> IF param.schema # <<>> THEN propertyType(param.schema[1])
                   ELSE propertyType(param.self),
     last |-> FALSE]

\* compareParameters with the names compared ascending.
compareParametersAscending(a, b) ==
    IF a.paramRequired /\ ~b.paramRequired THEN -1
    ELSE IF ~a.paramRequired /\ b.paramRequired THEN 1
    ELSE IF StrLt(a.paramName, b.paramName) THEN -1
    ELSE IF StrLt(b.paramName, a.paramName) THEN 1
    ELSE 0

compareParameters(a, b) ==
    IF a.paramRequired /\ ~b.paramRequired THEN -1
    ELSE IF ~a.paramRequired /\ b.paramRequired THEN 1
    ELSE IF StrLt(b.paramName, a.paramName) THEN -1
    ELSE IF StrLt(a.paramName, b.paramName) THEN 1
    ELSE 0

sortParameters(params) ==
    FlagLast(StableSort(params,
        [j \in 1..Len(params) |-> [k \in 1..Len(params) |->
            compareParameters(params[j], params[k])]]))

operationParameters(def) ==
    sortParameters([p \in 1..Len(def.parameters) |-> paramDescriptor(def.parameters[p])])

\* The operation descriptor of processServices for one (url, method, def).
\* Called only when the result type is a string (see operationFaults).
operationDescriptor(url, method, def, ms) ==
    LET responses  == processResponses(def)
        resultType == responses.resultType
        result     == removeBrackets(resultType.text)
        isVoid     == resultType.text = <<"void">>
        isString   == resultType.text = <<"string">>
        isNumber   == resultType.text = <<"number">>
        isBoolean  == resultType.text = <<"boolean">>
        isEnum     == HasModel(ms, result) /\ ModelNamed(ms, result).modelIsEnum
        isObject   == HasModel(ms, result) /\ ModelNamed(ms, result).modelIsObject
    IN  [operationName |-> def.operationId,
         operationMethod |-> method,
         operationPath |-> url,
         operationPathExpression |-> toPathExpression(url),
         operationResultType |-> resultType,
         operationParameters |-> operationParameters(def),
         operationResponses |-> responses.byCode,
         operationIsVoid |-> isVoid,
         operationIsString |-> isString,
         operationIsNumber |-> isNumber,
         operationIsBoolean |-> isBoolean,
         operationIsEnum |-> isEnum,
         operationIsObject |-> isObject,
         operationIsUnknown |-> ~(isVoid \/ isString \/ isNumber \/ isBoolean
                                  \/ isEnum \/ isObject)]

\* An operation that is not given exactly one tag and an operation id is
\* ignored; the message logged for it reads the variable name, which
\* processServices does not declare, so the read throws a ReferenceError.
IsIgnoredOperation(def) == Len(def.tags) # 1 \/ def.operationId = Null

\* Whether building the operation throws: removeBrackets(resultType) of an
\* inline object result type.
operationFaults(def) == processResponses(def).resultType.inline

\* services[name]: the index of the entry, 0 when there is none.
ServiceIndex(ss, name) ==
    IF \E i \in 1..Len(ss) : ss[i].serviceName = name
    THEN CHOOSE i \in 1..Len(ss) : ss[i].serviceName = name
    ELSE 0

ServiceNames(ss) == {ss[i].serviceName : i \in 1..Len(ss)}

newService(tag) ==
    [serviceName |-> tag, serviceOperations |-> <<>>,
     hasDependencies |-> FALSE, serviceDependencies |-> <<>>]

\* The candidates the dependency loop of processServices adds for a service:
\* per operation, the type of each response entry, then the type of each
\* parameter.  (The resultType entry of operationResponses is a string or an
\* inline object; its member type is undefined, which add ignores.)
RECURSIVE serviceCandidates(_, _)
serviceCandidates(ops, i) ==
    IF i > Len(ops) THEN <<>>
    ELSE [c \in 1..Len(ops[i].operationResponses) |-> ops[i].operationResponses[c].type]
         \o [j \in 1..Len(ops[i].operationParameters) |-> ops[i].operationParameters[j].paramType]
         \o serviceCandidates(ops, i + 1)

\* The state of the loops of processServices: the service mapping, the
\* function-scoped variable descriptor (the name of the service it refers
\* to, Undefined before its first assignment) and whether an exception was
\* thrown.
NewServicesState == [services |-> <<>>, descriptor |-> Undefined, fault |-> FALSE]

\* One iteration of the loop over the methods of a path.
processOperation(st, url, entry, ms) ==
    IF st.fault THEN st
    ELSE IF IsIgnoredOperation(entry.def) THEN [st EXCEPT !.fault = TRUE]
    ELSE LET tag  == entry.def.tags[1]
             ss   == IF ServiceIndex(st.services, tag) = 0
                     THEN Append(st.services, newService(tag))
                     ELSE st.services
             d    == ServiceIndex(ss, tag)
         IN  IF operationFaults(entry.def)
             THEN [services |-> ss, descriptor |-> tag, fault |-> TRUE]
             ELSE [services |-> [ss EXCEPT ![d].serviceOperations =
                                    Append(@, operationDescriptor(url, entry.method, entry.def, ms))],
                   descriptor |-> tag,
                   fault |-> FALSE]

RECURSIVE processMethods(_, _, _, _, _)
processMethods(st, url, methods, i, ms) ==
    IF i > Len(methods) THEN st
    ELSE processMethods(processOperation(st, url, methods[i], ms), url, methods, i + 1, ms)

\* After the methods of a path: services[tag] = descriptor and the
\* dependencies of that one descriptor, the last one assigned.  With
\* descriptor undefined, reading its serviceOperations throws.
resolveServiceDependencies(st, ms) ==
    IF st.fault THEN st
    ELSE IF st.descriptor = Undefined THEN [st EXCEPT !.fault = TRUE]
    ELSE LET d == ServiceIndex(st.services, st.descriptor)
             r == resolverAddAll(NewResolver, ms, Undefined,
                                 serviceCandidates(st.services[d].serviceOperations, 1), 1)
         IN  IF r.fault THEN [st EXCEPT !.fault = TRUE]
             ELSE [st EXCEPT !.services[d].hasDependencies = TRUE,
                             !.services[d].serviceDependencies = r.dependencyNames]

RECURSIVE processPaths(_, _, _, _)
processPaths(st, paths, i, ms) ==
    IF i > Len(paths) THEN st
    ELSE processPaths(
            resolveServiceDependencies(
                processMethods(st, paths[i].url, paths[i].methods, 1, ms), ms),
            paths, i + 1, ms)

processServices(paths, ms) ==
    LET st == processPaths(NewServicesState, paths, 1, ms)
    IN  IF st.fault THEN [outcome |-> "fault", services |-> <<>>]
        ELSE [outcome |-> "ok", services |-> st.services]

----------------------------------------------------------------------------
(* The tag filter *)

\* String.prototype.split(","): the pieces between the commas; the empty
\* string gives one empty piece.
RECURSIVE split(_)
split(text) ==
    LET pos == IndexOf(text, ",")
    IN  IF pos = 0 THEN <<text>>
        ELSE <<SubSeq(text, 1, pos - 1)>> \o split(SubSeq(text, pos + 1, Len(text)))

\* The includeTags doGenerate hands to applyTagFilter: a string is split,
\* anything else is passed on as it is.
includeTagsOf(opts) ==
    IF opts.includeTags.kind = "string"
    THEN [kind |-> "list", list |-> split(opts.includeTags.text)]
    ELSE opts.includeTags

\* Pruning whatever the option says.
ignoreUnusedModelsAlways(opts) == TRUE

\* options.ignoreUnusedModels !== false
ignoreUnusedModelsOf(opts) == opts.ignoreUnusedModels # "false"

\* isIncluded with an empty array taken as no filter.
isIncludedEmptyIsAll(includeTags, serviceName) ==
    \/ includeTags.kind \in {"null", "undefined"}
    \/ includeTags.list = <<>>
    \/ \E i \in 1..Len(includeTags.list) : includeTags.list[i] = serviceName

\* !includeTags || includeTags.indexOf(serviceName) >= 0: null and undefined
\* are falsy, an array (an empty one too) is truthy.
isIncluded(includeTags, serviceName) ==
    \/ includeTags.kind \in {"null", "undefined"}
    \/ IndexOf(includeTags.list, serviceName) > 0

\* collectDependencies: dependencies is the sequence of the names added to
\* the set, one entry per call of dependencies.add; model is a model object,
\* given by its name.
RECURSIVE collectDependencies(_, _, _)
RECURSIVE collectAll(_, _, _, _)

collectAll(dependencies, deps, i, ms) ==
    IF i > Len(deps) THEN dependencies
    ELSE collectAll(collectDependencies(dependencies, deps[i], ms), deps, i + 1, ms)

\* collectDependencies without the test of the Set, and without the descent.
collectDependenciesNoHas(dependencies, model, ms) ==
    IF model = Undefined THEN dependencies ELSE Append(dependencies, model)

\* collectDependencies without the descent into the model's dependencies.
collectDependenciesShallow(dependencies, model, ms) ==
    IF model = Undefined \/ \E i \in 1..Len(dependencies) : dependencies[i] = model
    THEN dependencies
    ELSE Append(dependencies, model)

collectDependencies(dependencies, model, ms) ==
    IF model = Undefined \/ IndexOf(dependencies, model) > 0 THEN dependencies
    ELSE LET m == ModelNamed(ms, model)
             added == Append(dependencies, model)
         IN  IF m.hasDependencies THEN collectAll(added, m.modelDependencies, 1, ms)
             ELSE added

KeepWhere(s, keep) ==
    LET idx == {i \in 1..Len(s) : keep[i]}
        nth(n) == CHOOSE i \in idx : Cardinality({j \in idx : j < i}) = n - 1
    IN  [n \in 1..Cardinality(idx) |-> s[nth(n)]]

\* The first loop of applyTagFilter: the services kept.
retainedServices(ss, includeTags) ==
    KeepWhere(ss, [i \in 1..Len(ss) |-> isIncluded(includeTags, ss[i].serviceName)])

\* usedModels: the dependencies of the services kept, in insertion order
\* (a Set keeps each value once).
RECURSIVE usedModels(_, _, _)
usedModels(kept, i, acc) ==
    IF i > Len(kept) THEN acc
    ELSE LET deps == kept[i].serviceDependencies
             new  == KeepWhere(deps, [j \in 1..Len(deps) |->
                        /\ IndexOf(acc, deps[j]) = 0
                        /\ \A k \in 1..(j - 1) : deps[k] # deps[j]])
         IN  usedModels(kept, i + 1, acc \o new)

\* applyTagFilter.  Reading serviceDependencies.forEach of a kept service
\* that has no serviceDependencies throws; the services before it that are
\* not included are deleted by then.  allDependencies is created after the
\* first loop, when models are pruned.
applyTagFilter(ms, ss, includeTags, ignoreUnusedModels) ==
    LET kept == retainedServices(ss, includeTags)
        bare == {i \in 1..Len(ss) : /\ isIncluded(includeTags, ss[i].serviceName)
                                    /\ ~ss[i].hasDependencies}
    IN  IF ~ignoreUnusedModels
        THEN [outcome |-> "ok", models |-> ms, services |-> kept,
              allDependencies |-> <<>>]
        ELSE IF bare # {}
        THEN [outcome |-> "fault", models |-> ms,
              services |-> KeepWhere(ss, [i \in 1..Len(ss) |->
                              \/ isIncluded(includeTags, ss[i].serviceName)
                              \/ \E b \in bare : b < i]),
              allDependencies |-> <<>>]
        ELSE LET all == collectAll(<<>>, usedModels(kept, 1, <<>>), 1, ms)
             IN  [outcome |-> "ok",
                  models |-> KeepWhere(ms, [i \in 1..Len(ms) |->
                                IndexOf(all, ms[i].modelName) > 0]),
                  services |-> kept,
                  allDependencies |-> all]

----------------------------------------------------------------------------
(* doGenerate *)

\* pc: "models", "services", "filter": the call doGenerate makes next;
\* "done": the graphs are ready for the templates; "exit": process.exit(1)
\* was called; "threw:<function>": the function threw an exception, which
\* nothing catches, and the run ended.
ProcessModels ==
    /\ pc = "models"
    /\ LET r == processModels(swagger.definitions)
       IN  /\ models' = r.models
           /\ pc' = CASE r.outcome = "ok"    -> "services"
                      [] r.outcome = "exit"  -> "exit"
                      [] r.outcome = "fault" -> "threw:processModels"
    /\ UNCHANGED <<swagger, options, services, allDependencies>>

ProcessServices ==
    /\ pc = "services"
    /\ LET r == processServices(swagger.paths, models)
       IN  /\ services' = r.services
           /\ pc' = IF r.outcome = "ok" THEN "filter" ELSE "threw:processServices"
    /\ UNCHANGED <<swagger, options, models, allDependencies>>

ApplyTagFilter ==
    /\ pc = "filter"
    /\ LET r == applyTagFilter(models, services, includeTagsOf(options),
                               ignoreUnusedModelsOf(options))
       IN  /\ models' = r.models
           /\ services' = r.services
           /\ allDependencies' = r.allDependencies
           /\ pc' = IF r.outcome = "ok" THEN "done" ELSE "threw:applyTagFilter"
    /\ UNCHANGED <<swagger, options>>

Next == ProcessModels \/ ProcessServices \/ ApplyTagFilter

----------------------------------------------------------------------------
(* Documents *)

\* The properties a definition may declare: n of them, with distinct names.
PropertyLists(names, schemas, n) ==
    {ps \in [1..n -> [name : names, schema : schemas]] :
        \A i, j \in 1..n : i # j => ps[i].name # ps[j].name}

\* A definition of a given shape: a string enum, an object, or a composition
\* [reference to parent, own properties].
Definition(shape, props) ==
    CASE shape.kind = "enum"   -> [Schema("string") EXCEPT !.enum = <<<<"x">>, <<"y">>>>]
      [] shape.kind = "object" -> ObjectOf(props)
      [] shape.kind = "allOf"  ->
            [Schema("") EXCEPT !.allOf = <<RefTo(shape.parent), ObjectOf(props)>>]

DefaultOptions ==
    [includeTags |-> [kind |-> "undefined", list |-> <<>>, text |-> <<>>],
     ignoreUnusedModels |-> "undefined"]

\* SpecModels: documents of two definitions, A and B, of every shape, with
\* up to MaxProps properties between them, and no paths.
MaxProps == 2

PropNames == {<<"a">>, <<"b">>}

ModelsShapes ==
    {[kind |-> "enum", parent |-> Null], [kind |-> "object", parent |-> Null]}
    \cup {[kind |-> "allOf", parent |-> <<n>>] : n \in {"A", "B", "X"}}

ModelsSchemas ==
    {Schema("string")}
    \cup {RefTo(<<n>>) : n \in {"A", "B", "X"}}
    \cup {ArrayOf(RefTo(<<n>>)) : n \in {"A", "B"}}
    \cup {ObjectOf(<<[name |-> <<"m">>, schema |-> RefTo(<<"B">>)]>>)}

InitModels ==
    /\ \E n1 \in 0..MaxProps : \E n2 \in 0..(MaxProps - n1) :
       \E s1, s2 \in ModelsShapes :
       \E p1 \in PropertyLists(PropNames, ModelsSchemas, n1) :
       \E p2 \in PropertyLists(PropNames, ModelsSchemas, n2) :
          /\ s1.kind = "enum" => n1 = 0
          /\ s2.kind = "enum" => n2 = 0
          /\ swagger = [definitions |-> <<[name |-> <<"A">>, schema |-> Definition(s1, p1)],
                                          [name |-> <<"B">>, schema |-> Definition(s2, p2)]>>,
                        paths |-> <<>>]
    /\ options = DefaultOptions
    /\ models = <<>>
    /\ services = <<>>
    /\ allDependencies = <<>>
    /\ pc = "models"

SpecModels == InitModels /\ [][Next]_vars

\* SpecOps: documents with two definitions, the object A and the enum B, and
\* one operation, get of one path, tagged Pets.  The operation varies in its
\* parameters, in its responses, or in the path template.
MaxParams == 3

MaxResponses == 2

MaxSegments == 3

Pets == <<"Pets">>

Users == <<"Users">>

OpsDefinitions ==
    <<[name |-> <<"A">>, schema |-> Definition([kind |-> "object", parent |-> Null], <<>>)],
      [name |-> <<"B">>, schema |-> Definition([kind |-> "enum", parent |-> Null], <<>>)]>>

Operation(tags, id, parameters, responses) ==
    [tags |-> tags, operationId |-> id, parameters |-> parameters, responses |-> responses]

\* A parameter: schema holds zero or one fragment (the schema member), self
\* is the fragment made of the parameter's own type fields.
Parameter(name, in, required, schema, self) ==
    [name |-> name, in |-> in, required |-> required, schema |-> schema, self |-> self]

OpsParameters ==
    {Parameter(n, ir[1], ir[2], <<>>, Schema("string")) :
        n \in {<<"a">>, <<"b">>, <<"c">>},
        ir \in {<<"path", FALSE>>, <<"query", TRUE>>, <<"query", FALSE>>}}

OpsCodes == {<<"2", "0", "0">>, <<"2", "0", "1">>, <<"4", "0", "4">>, <<"default">>}

OpsResponseSchemas ==
    {<<>>, <<Schema("string")>>, <<Schema("integer")>>, <<Schema("boolean")>>,
     <<RefTo(<<"A">>)>>, <<RefTo(<<"B">>)>>, <<ArrayOf(RefTo(<<"A">>))>>,
     <<ObjectOf(<<>>)>>}

\* The responses an operation may declare: n of them, with distinct codes, in
\* the order of the document.
ResponseLists(n) ==
    {rs \in [1..n -> [code : OpsCodes, schema : OpsResponseSchemas]] :
        \A i, j \in 1..n : i # j => rs[i].code # rs[j].code}

OpsSegments ==
    {<<"/", "a">>, <<"/", "{", "var1", "}">>, <<"/", "{", "var2", "}">>}

RECURSIVE Concat(_)
Concat(ss) == IF ss = <<>> THEN <<>> ELSE Head(ss) \o Concat(Tail(ss))

OpsUrl == <<"/", "a">>

OneOperation(url, def) ==
    [definitions |-> OpsDefinitions,
     paths |-> <<[url |-> url, methods |-> <<[method |-> "get", def |-> def]>>]>>]

\* What varies in the operation of a document of SpecOps.
OpsParts == {"parameters", "responses", "path"}

InitOps ==
    /\ \E part \in OpsParts :
       \E n \in 0..(IF part = "parameters" THEN MaxParams ELSE 0) :
       \E m \in 0..(IF part = "responses" THEN MaxResponses ELSE 0) :
       \E k \in 0..(IF part = "path" THEN MaxSegments ELSE 0) :
       \E ps \in [1..n -> OpsParameters] : \E rs \in ResponseLists(m) :
       \E segs \in [1..k -> OpsSegments] :
          swagger = OneOperation(IF k = 0 THEN OpsUrl ELSE Concat(segs),
                                 Operation(<<Pets>>, <<"op">>, ps, rs))
    /\ options = DefaultOptions
    /\ models = <<>>
    /\ services = <<>>
    /\ allDependencies = <<>>
    /\ pc = "models"

SpecOps == InitOps /\ [][Next]_vars

\* The ways to cut a sequence of n operations into consecutive paths: the
\* set of the positions after which a new path starts.
Cuts(n) == SUBSET (1..(n - 1))

\* The paths of a document: ops cut at the positions of cuts, path k of the
\* document being at url /k.
PathsOf(ops, cuts) ==
    LET starts  == {1} \cup {c + 1 : c \in cuts}
        nth(k)  == CHOOSE i \in starts : Cardinality({j \in starts : j < i}) = k - 1
        stop(k) == IF k = Cardinality(starts) THEN Len(ops) ELSE nth(k + 1) - 1
    IN  IF ops = <<>> THEN <<>>
        ELSE [k \in 1..Cardinality(starts) |->
                [url |-> <<"/", CodeUnitOrder[k + 1]>>,
                 methods |-> [i \in 1..(stop(k) - nth(k) + 1) |-> ops[nth(k) + i - 1]]]]

BodyParameter(schema) == Parameter(<<"body">>, "body", TRUE, <<schema>>, Schema(""))

Response(code, schema) == [code |-> code, schema |-> <<schema>>]

\* SpecServices: the definitions of SpecOps, and up to MaxOps operations cut
\* into paths in every way, after an empty path or not.  An operation is
\* tagged Pets or Users and refers to no model, to A by a body parameter or
\* to B by the array of its 200 response; or it has no tag, two tags, or no
\* operation id.
MaxOps == 3

ServicesOperations ==
    {[method |-> m, def |-> Operation(<<t>>, <<"op">>, d.parameters, d.responses)] :
        m \in {"get"}, t \in {Pets, Users},
        d \in {[parameters |-> <<>>, responses |-> <<>>],
               [parameters |-> <<BodyParameter(RefTo(<<"A">>))>>, responses |-> <<>>],
               [parameters |-> <<>>,
                responses |-> <<Response(<<"2", "0", "0">>, ArrayOf(RefTo(<<"B">>)))>>]}}
    \cup {[method |-> "get", def |-> Operation(<<>>, <<"op">>, <<>>, <<>>)],
          [method |-> "get", def |-> Operation(<<Pets, Users>>, <<"op">>, <<>>, <<>>)],
          [method |-> "get", def |-> Operation(<<Pets>>, Null, <<>>, <<>>)]}

\* The methods of one path have distinct names: the i-th is given the i-th
\* of these.
MethodNames == <<"get", "post", "put", "delete", "patch">>

NameMethods(paths) ==
    [k \in 1..Len(paths) |->
        [paths[k] EXCEPT !.methods =
            [i \in 1..Len(paths[k].methods) |->
                [paths[k].methods[i] EXCEPT !.method = MethodNames[i]]]]]

EmptyPath == [url |-> <<"/", "0">>, methods |-> <<>>]

InitServices ==
    /\ \E n \in 0..MaxOps : \E cuts \in Cuts(n) :
       \E ops \in [1..n -> ServicesOperations] : \E lead \in {<<>>, <<EmptyPath>>} :
          swagger = [definitions |-> OpsDefinitions,
                     paths |-> lead \o NameMethods(PathsOf(ops, cuts))]
    /\ options = DefaultOptions
    /\ models = <<>>
    /\ services = <<>>
    /\ allDependencies = <<>>
    /\ pc = "models"

SpecServices == InitServices /\ [][Next]_vars

\* SpecFilter: three object definitions A, B and C with up to MaxEdges
\* properties between them, each a reference to A, B or C; up to
\* MaxFilterOps operations, each tagged Pets or Users and referring to A or
\* to C by a body parameter, all of one path or each of a path of its own;
\* and the options in the forms doGenerate takes.
MaxEdges == 2

MaxFilterOps == 2

FilterNames == <<"A", "B", "C">>

\* edges[i] holds zero or one name: the model the property of the i-th
\* definition refers to.
FilterDefinitions(edges) ==
    [i \in 1..Len(FilterNames) |->
        [name |-> <<FilterNames[i]>>,
         schema |-> ObjectOf(IF edges[i] = <<>> THEN <<>>
                             ELSE <<[name |-> <<"a">>, schema |-> RefTo(edges[i])]>>)]]

FilterGraphs ==
    {FilterDefinitions(edges) :
        edges \in {e \in [1..Len(FilterNames) -> {<<>>} \cup {<<n>> : n \in Range(FilterNames)}] :
                      Cardinality({i \in 1..Len(FilterNames) : e[i] # <<>>}) <= MaxEdges}}

FilterOperations ==
    {[method |-> "get", def |-> Operation(<<t>>, <<"op">>, ps, <<>>)] :
        t \in {Pets, Users}, ps \in {<<BodyParameter(RefTo(<<n>>))>> : n \in {"A", "C"}}}

IncludeTags(kind, list, text) == [kind |-> kind, list |-> list, text |-> text]

FilterOptions ==
    {[includeTags |-> t, ignoreUnusedModels |-> "undefined"] :
        t \in {IncludeTags("undefined", <<>>, <<>>),
               IncludeTags("null", <<>>, <<>>),
               IncludeTags("list", <<>>, <<>>),
               IncludeTags("list", <<Pets>>, <<>>),
               IncludeTags("string", <<>>, <<>>),
               IncludeTags("string", <<>>, <<"Users", ",", "Pets">>)}}
    \cup {[includeTags |-> t, ignoreUnusedModels |-> "false"] :
             t \in {IncludeTags("undefined", <<>>, <<>>),
                    IncludeTags("list", <<>>, <<>>),
                    IncludeTags("list", <<Pets>>, <<>>),
                    IncludeTags("string", <<>>, <<"Users", ",", "Pets">>)}}

InitFilter ==
    /\ \E ds \in FilterGraphs : \E n \in 0..MaxFilterOps :
       \E cuts \in {{}, 1..(n - 1)} :
       \E ops \in [1..n -> FilterOperations] :
          swagger = [definitions |-> ds, paths |-> NameMethods(PathsOf(ops, cuts))]
    /\ options \in FilterOptions
    /\ models = <<>>
    /\ services = <<>>
    /\ allDependencies = <<>>
    /\ pc = "models"

SpecFilter == InitFilter /\ [][Next]_vars

\* SpecCollect: collectDependencies called as a function, any number of
\* times on one Set, as the forEach of applyTagFilter does, with any model
\* or undefined as its argument.  The models are the objects A and B, each
\* with up to MaxCollectDeps dependencies, any of which may be A, B, C or
\* undefined, and C, which has no modelDependencies member.
MaxCollectDeps == 2

CollectModel(name, isObject, deps) ==
    [modelName |-> name, modelParent |-> NoParent, modelIsObject |-> isObject,
     modelIsEnum |-> ~isObject, modelProperties |-> <<>>,
     modelEnumValues |-> IF isObject THEN <<>> ELSE <<<<"x">>>>,
     modelSubclasses |-> <<>>, hasDependencies |-> isObject,
     modelDependencies |-> deps]

CollectTargets == {<<"A">>, <<"B">>, <<"C">>, Undefined}

CollectEdges == UNION {[1..n -> CollectTargets] : n \in 0..MaxCollectDeps}

InitCollect ==
    /\ \E da \in CollectEdges : \E db \in CollectEdges :
          models = <<CollectModel(<<"A">>, TRUE, da),
                     CollectModel(<<"B">>, TRUE, db),
                     CollectModel(<<"C">>, FALSE, <<>>)>>
    /\ swagger = [definitions |-> <<>>, paths |-> <<>>]
    /\ options = DefaultOptions
    /\ services = <<>>
    /\ allDependencies = <<>>
    /\ pc = "collect"

\* One call collectDependencies(allDependencies, model, models).
CollectDependencies ==
    /\ pc = "collect"
    /\ \E model \in CollectTargets :
          allDependencies' = collectDependencies(allDependencies, model, models)
    /\ UNCHANGED <<swagger, options, models, services, pc>>

NextCollect == CollectDependencies

SpecCollect == InitCollect /\ [][NextCollect]_vars

----------------------------------------------------------------------------
(* Properties of processModels, under SpecModels *)

\* processModels has returned the model mapping and nothing has pruned it.
ModelsBuilt == pc \in {"services", "filter"}

DefinitionOf(name) ==
    (CHOOSE d \in Range(swagger.definitions) : d.name = name).schema

IsComposition(def) == Len(def.allOf) = 2 /\ def.allOf[1].ref # Null

\* C5: every definition that is a two-element composition [reference, own
\* properties] gives a model whose parent is the model of the referenced
\* definition, and that parent's subclasses contain the model, whether the
\* parent is defined before or after the child.
C5_ParentWiring ==
    ModelsBuilt =>
        \A i \in 1..Len(swagger.definitions) :
            IsComposition(swagger.definitions[i].schema) =>
                \E p \in 1..Len(models) :
                    /\ RefTo(models[p].modelName) = swagger.definitions[i].schema.allOf[1]
                    /\ models[i].modelName = swagger.definitions[i].name
                    /\ models[i].modelParent = [kind |-> "model", name |-> models[p].modelName]
                    /\ \E k \in 1..Len(models[p].modelSubclasses) :
                          models[p].modelSubclasses[k] = models[i].modelName

\* A is a composition on B, which is defined after it, and B is one on A.
C5_Witness ==
    /\ ModelsBuilt
    /\ IsComposition(swagger.definitions[1].schema)
    /\ models[1].modelParent = [kind |-> "model", name |-> <<"B">>]
    /\ models[2].modelParent = [kind |-> "model", name |-> <<"A">>]
    /\ models[2].modelSubclasses = <<<<"A">>>>

\* C6: the properties of every object model are sorted ascending by property
\* name, the last one is flagged last, and no other is.
C6_PropertiesSorted ==
    ModelsBuilt =>
        \A i \in 1..Len(models) :
            LET props == models[i].modelProperties
            IN  models[i].modelIsObject =>
                  /\ \A k \in 1..(Len(props) - 1) :
                        StrLt(props[k].propertyName, props[k + 1].propertyName)
                  /\ \A k \in 1..Len(props) : props[k].last <=> (k = Len(props))

\* Whether a property schema is a reference to the model name, or an array
\* of such references.
RefersTo(schema, name) == schema = RefTo(name) \/ schema = ArrayOf(RefTo(name))

OwnProperties(def) == IF def.allOf # <<>> THEN def.allOf[2].properties ELSE def.properties

ParentIs(def, name) == def.allOf # <<>> /\ def.allOf[1] = RefTo(name)

Occurrences(s, x) == Cardinality({i \in 1..Len(s) : s[i] = x})

\* C10: the modelDependencies of every object model have no duplicates, never
\* hold the model's own name, hold only models of the mapping, and hold Foo
\* exactly once whenever a property of the model is a reference to Foo or an
\* array of Foo, or Foo is its parent or one of its subclasses.
C10_ModelDependencies ==
    ModelsBuilt =>
        \A i \in 1..Len(models) :
            LET m   == models[i]
                def == DefinitionOf(m.modelName)
            IN  m.modelIsObject =>
                  /\ m.hasDependencies
                  /\ NoDuplicates(m.modelDependencies)
                  /\ Occurrences(m.modelDependencies, m.modelName) = 0
                  /\ Range(m.modelDependencies) \subseteq ModelNames(models)
                  /\ \A foo \in ModelNames(models) \ {m.modelName} :
                        (\/ \E k \in 1..Len(OwnProperties(def)) :
                                RefersTo(OwnProperties(def)[k].schema, foo)
                         \/ ParentIs(def, foo)
                         \/ ParentIs(DefinitionOf(foo), m.modelName))
                        => Occurrences(m.modelDependencies, foo) = 1

\* A is a composition on B with a property that refers to A itself and one
\* that is an array of B: its dependencies are B, once.
C10_Witness ==
    /\ ModelsBuilt
    /\ ParentIs(swagger.definitions[1].schema, <<"B">>)
    /\ Len(swagger.definitions[1].schema.allOf[2].properties) = 2
    /\ \E k \in 1..2 : swagger.definitions[1].schema.allOf[2].properties[k].schema
                          = RefTo(<<"A">>)
    /\ \E k \in 1..2 : swagger.definitions[1].schema.allOf[2].properties[k].schema
                          = ArrayOf(RefTo(<<"B">>))
    /\ models[1].modelDependencies = <<<<"B">>>>

----------------------------------------------------------------------------
(* Properties of the operations processServices builds, under SpecOps *)

\* processServices has returned the service mapping and nothing has
\* filtered it.
ServicesBuilt == pc = "filter"

\* The operation of the document, and the operation descriptor built for it.
TheDef == swagger.paths[1].methods[1].def

TheOperation == services[1].serviceOperations[1]

IsRequired(param) == param.required \/ param.in = "path"

\* C7: the parameters of an operation are those declared, the required ones
\* (declared required, or in the path) before the optional ones, by name
\* descending within each group; the last one, and only it, is flagged last.
C7_ParameterOrder ==
    ServicesBuilt =>
        LET declared == TheDef.parameters
            ps == TheOperation.operationParameters
        IN  /\ Len(ps) = Len(declared)
            /\ \A d \in Range(declared) :
                  Cardinality({i \in 1..Len(ps) :
                      /\ ps[i].paramName = d.name
                      /\ ps[i].paramIn = d.in
                      /\ ps[i].paramRequired = IsRequired(d)})
                  = Cardinality({i \in 1..Len(declared) :
                      /\ declared[i].name = d.name
                      /\ declared[i].in = d.in
                      /\ IsRequired(declared[i]) = IsRequired(d)})
            /\ \A i, j \in 1..Len(ps) : i < j =>
                  /\ ps[j].paramRequired => ps[i].paramRequired
                  /\ (ps[i].paramRequired = ps[j].paramRequired)
                        => ~StrLt(ps[i].paramName, ps[j].paramName)
            /\ \A i \in 1..Len(ps) : ps[i].last <=> (i = Len(ps))

\* [b optional, a required, c required] has become [c, a, b].
C7_Witness ==
    /\ ServicesBuilt
    /\ TheDef.parameters =
          <<Parameter(<<"b">>, "query", FALSE, <<>>, Schema("string")),
            Parameter(<<"a">>, "query", TRUE, <<>>, Schema("string")),
            Parameter(<<"c">>, "query", TRUE, <<>>, Schema("string"))>>
    /\ [i \in 1..3 |-> TheOperation.operationParameters[i].paramName]
          = <<<<"c">>, <<"a">>, <<"b">>>>

\* The first response, in the order of the document, whose code matches 2xx
\* and that has a schema: its index in the declared responses, 0 if none.
FirstSuccess(responses) ==
    LET ok == {i \in 1..Len(responses) :
                  IsSuccessCode(responses[i].code) /\ responses[i].schema # <<>>}
    IN  IF ok = {} THEN 0 ELSE CHOOSE i \in ok : \A j \in ok : i <= j

\* C8: the result type of an operation is the type of the first declared
\* response with a 2xx code and a schema, and void when there is none.
C8_FirstSuccessResponse ==
    ServicesBuilt =>
        LET first == FirstSuccess(TheDef.responses)
        IN  TheOperation.operationResultType =
                IF first = 0 THEN VoidType
                ELSE propertyType(TheDef.responses[first].schema[1])

\* Every { of the path replaced by ${params.
RECURSIVE AllPlaceholders(_)
AllPlaceholders(path) ==
    IF path = <<>> THEN <<>>
    ELSE (IF Head(path) = "{" THEN <<"$", "{", "params", ".">> ELSE <<Head(path)>>)
         \o AllPlaceholders(Tail(path))

\* C9: the path expression of an operation is its path template with every
\* {name} replaced by ${params.name}.
C9_PathExpression ==
    ServicesBuilt =>
        TheOperation.operationPathExpression = AllPlaceholders(TheOperation.operationPath)

----------------------------------------------------------------------------
(* Properties of processServices, under SpecServices *)

\* The operations of the document: where each is declared, and its definition.
DeclaredOperations ==
    {[url |-> swagger.paths[k].url, method |-> swagger.paths[k].methods[i].method,
      def |-> swagger.paths[k].methods[i].def] :
        <<k, i>> \in {ki \in (1..Len(swagger.paths)) \X (1..MaxOps + 1) :
                        ki[2] <= Len(swagger.paths[ki[1]].methods)}}

\* The operations assigned to the service of a tag: those with that one tag
\* and an operation id.
AssignedTo(tag) ==
    {op \in DeclaredOperations : op.def.tags = <<tag>> /\ op.def.operationId # Null}

\* The schemas of the parameters and of the responses of an operation.
OperationSchemas(def) ==
    {IF p.schema # <<>> THEN p.schema[1] ELSE p.self : p \in Range(def.parameters)}
    \cup {r.schema[1] : r \in {x \in Range(def.responses) : x.schema # <<>>}}

ReferencedBy(tag) ==
    {m \in ModelNames(models) :
        \E op \in AssignedTo(tag) : \E sch \in OperationSchemas(op.def) : RefersTo(sch, m)}

\* C3: every service has the dependencies of all the operations assigned to
\* it, each known model once, however its operations are spread over the
\* paths or mixed, within a path, with operations of other tags.
C3_ServiceDependenciesComplete ==
    ServicesBuilt =>
        \A i \in 1..Len(services) :
            /\ services[i].hasDependencies
            /\ NoDuplicates(services[i].serviceDependencies)
            /\ Range(services[i].serviceDependencies) = ReferencedBy(services[i].serviceName)

IsDeclaredIn(op, ss) ==
    \E i \in 1..Len(ss) :
        /\ ss[i].serviceName = op.def.tags[1]
        /\ \E o \in Range(ss[i].serviceOperations) :
              o.operationPath = op.url /\ o.operationMethod = op.method

\* C4: an operation with no tag or with several is added to no service and
\* does not end the run: the operations with one tag and an operation id, in
\* the same path or in another, are in their services.  (Stated for the
\* documents whose operations all have an operation id and whose paths all
\* have an operation.)
C4_UntaggedDropped ==
    (/\ pc \notin {"models", "services"}
     /\ \E op \in DeclaredOperations : Len(op.def.tags) # 1
     /\ \A op \in DeclaredOperations : op.def.operationId # Null
     /\ \A k \in 1..Len(swagger.paths) : swagger.paths[k].methods # <<>>)
    => /\ pc # "threw:processServices"
       /\ ServicesBuilt =>
            \A op \in DeclaredOperations :
                IF Len(op.def.tags) = 1 THEN IsDeclaredIn(op, services)
                ELSE \A i \in 1..Len(services) :
                        \A o \in Range(services[i].serviceOperations) :
                            ~(o.operationPath = op.url /\ o.operationMethod = op.method)

----------------------------------------------------------------------------
(* Properties of applyTagFilter, under SpecFilter *)

\* The model and service mappings handed to applyTagFilter.
BuiltModels == processModels(swagger.definitions).models

BuiltServices == processServices(swagger.paths, BuiltModels).services

Filtered == pc = "done"

\* The services, and the models, whose names are in a set, in their order.
RestrictedServices(ss, names) ==
    LET idx == {i \in 1..Len(ss) : ss[i].serviceName \in names}
    IN  [n \in 1..Cardinality(idx) |->
            ss[CHOOSE i \in idx : Cardinality({j \in idx : j < i}) = n - 1]]

RestrictedModels(ms, names) ==
    LET idx == {i \in 1..Len(ms) : ms[i].modelName \in names}
    IN  [n \in 1..Cardinality(idx) |->
            ms[CHOOSE i \in idx : Cardinality({j \in idx : j < i}) = n - 1]]

RECURSIVE Reachable(_, _, _)
Reachable(ms, names, n) ==
    IF n = 0 THEN names
    ELSE Reachable(ms,
            names \cup UNION {Range(ModelNamed(ms, x).modelDependencies) : x \in names},
            n - 1)

\* C2: with pruning, the models left are exactly those reachable, along the
\* models' dependencies, from the dependencies of the services kept.
C2_PruningIsClosure ==
    (Filtered /\ ignoreUnusedModelsOf(options)) =>
        LET built == BuiltModels
            seeds == UNION {Range(services[i].serviceDependencies) : i \in 1..Len(services)}
        IN  models = RestrictedModels(built, Reachable(built, seeds, Len(built)))

\* Only Pets is kept; it depends on A alone, which depends on B; Users
\* depended on C: A and B are left, C is removed.
C2_Witness ==
    /\ Filtered
    /\ ignoreUnusedModelsOf(options)
    /\ options.includeTags = IncludeTags("list", <<Pets>>, <<>>)
    /\ ModelNames(models) = {<<"A">>, <<"B">>}
    /\ services # <<>>
    /\ services[1].serviceDependencies = <<<<"A">>>>
    /\ models[1].modelDependencies = <<<<"B">>>>
    /\ \E u \in Range(BuiltServices) :
          u.serviceName = Users /\ u.serviceDependencies = <<<<"C">>>>

\* C11: with ignoreUnusedModels false, applyTagFilter returns, and the model
\* mapping after it is the model mapping processModels built, whatever
\* includeTags is and whatever services are removed.
C11_NoPruningKeepsModels ==
    (options.ignoreUnusedModels = "false"
        /\ pc \in {"done", "threw:applyTagFilter"}) =>
            /\ Filtered
            /\ models = BuiltModels

\* Only Pets was included and Users has been removed; C, which only Users
\* referred to, and B, which nothing refers to, are still there.
C11_Witness ==
    /\ Filtered
    /\ options.ignoreUnusedModels = "false"
    /\ ServiceNames(BuiltServices) = {Pets, Users}
    /\ ServiceNames(services) = {Pets}
    /\ services[1].serviceDependencies = <<<<"A">>>>
    /\ \A i \in 1..Len(models) : models[i].modelDependencies = <<>>
    /\ ModelNames(models) = {<<"A">>, <<"B">>, <<"C">>}

----------------------------------------------------------------------------
(* Properties of the result classification, under SpecOps *)

ResultFlags ==
    {"operationIsVoid", "operationIsString", "operationIsNumber",
     "operationIsBoolean", "operationIsEnum", "operationIsObject",
     "operationIsUnknown"}

\* C13: every operation is classified, and exactly one of its flags is set:
\* void iff resultType is the void marker; string, number, boolean iff
\* resultType is the type propertyType resolves a string, number, boolean
\* schema to; enum, object iff resultType without its brackets names an enum,
\* an object model; unknown otherwise.
C13_ResultClassification ==
    /\ pc # "threw:processServices"
    /\ ServicesBuilt =>
          LET op     == TheOperation
              type   == op.operationResultType.text
              named  == removeBrackets(type)
              void   == type = VoidType.text
              string == type = propertyType(Schema("string")).text
              number == type = propertyType(Schema("number")).text
              bool   == type = propertyType(Schema("boolean")).text
              enum   == HasModel(models, named) /\ ModelNamed(models, named).modelIsEnum
              object == HasModel(models, named) /\ ModelNamed(models, named).modelIsObject
          IN  /\ Cardinality({f \in ResultFlags : op[f]}) = 1
              /\ op.operationIsVoid <=> void
              /\ op.operationIsString <=> string
              /\ op.operationIsNumber <=> number
              /\ op.operationIsBoolean <=> bool
              /\ op.operationIsEnum <=> enum
              /\ op.operationIsObject <=> object
              /\ op.operationIsUnknown <=>
                    ~(void \/ string \/ number \/ bool \/ enum \/ object)

----------------------------------------------------------------------------
(* Properties of collectDependencies, under SpecCollect *)

\* C12: a call of collectDependencies on any model or on undefined, with any
\* graph (cycles, self references and undefined dependencies included),
\* returns; it only adds to the Set, each name at most once and never
\* undefined; on undefined, and on a model already in the Set, it leaves
\* the Set as it is; on any other model the model is in the Set afterwards.
C12_CollectTerminatesOnce ==
    pc = "collect" =>
        \A model \in CollectTargets :
            LET after == collectDependencies(allDependencies, model, models)
            IN  /\ Len(after) <= Len(models)
                /\ SubSeq(after, 1, Len(allDependencies)) = allDependencies
                /\ NoDuplicates(after)
                /\ Undefined \notin Range(after)
                /\ (model = Undefined \/ model \in Range(allDependencies))
                      => after = allDependencies
                /\ model # Undefined => model \in Range(after)

\* A depends on B and on undefined, B on A and on itself: from A, the Set
\* has got A and B, once each.
C12_Witness ==
    /\ pc = "collect"
    /\ models[1].modelDependencies = <<<<"B">>, Undefined>>
    /\ models[2].modelDependencies = <<<<"A">>, <<"B">>>>
    /\ allDependencies = <<<<"A">>, <<"B">>>>

====
